---- MODULE Spec2Model ----
(***************************************************************************)
(* Model of the behavior-tree XML diff tool: BTTreeParser builds a BTNode  *)
(* tree (with a path per node) from an XML element tree, and               *)
(* BTTreeComparator.compare_trees maps two such trees to a list of         *)
(* NodeChange records (added / removed / modified / unchanged / moved).    *)
(***************************************************************************)
EXTENDS Naturals, Sequences, FiniteSets, TLC

VARIABLES
    oldDoc,     \* None, or Some(the <BehaviorTree> element of the old file)
    newDoc,     \* None, or Some(the <BehaviorTree> element of the new file)
    oldTree,    \* None, or Some(BTNode tree) parsed from oldDoc
    newTree,    \* None, or Some(BTNode tree) parsed from newDoc
    changes,    \* BTTreeComparator.changes (the list compare_trees returns)
    pc,         \* "start" | "parsed" | "done"; "calls" and "fn" in the
                \* specifications of repeated calls and of the pure functions
    heap,       \* the list objects allocated by one BTTreeComparator, by identity
    selfChanges,\* the identity of the list bound to self.changes (0: no comparator)
    returned,   \* what the caller holds of each compare_trees call made so far
    arg,        \* None, or Some(the argument of a pure function)
    ret         \* None, or Some(what the function returned for arg)

\* the state of compare_files / compare_trees on one pair of inputs
fileVars == <<oldDoc, newDoc, oldTree, newTree, changes>>
\* the state of a comparator that is called several times
callVars == <<heap, selfChanges, returned>>
\* the state of one application of a pure function
fnVars == <<arg, ret>>

vars == <<oldDoc, newDoc, oldTree, newTree, changes, pc, heap, selfChanges,
          returned, arg, ret>>

----------------------------------------------------------------------------
(* Bounds of the model *)

\* largest number of elements (root included) of an input document
MaxNodes == 3

\* largest number of elements of the two input documents together
MaxTotal == 5

\* the same, where every order of traversal and of iteration is tried
MaxPermuted == 3

----------------------------------------------------------------------------
(* Python values *)

\* Optional[...]: None is the empty tuple, a set value is a 1-tuple
None == <<>>
Some(x) == <<x>>

\* a dict with string keys is a function on the set of its keys
EmptyDict == [k \in {} |-> ""]
Get(d, k, default) == IF k \in DOMAIN d THEN d[k] ELSE default

Range(s) == {s[i] : i \in DOMAIN s}

\* the multiset of the items of a list
SeqToBag(s) == [x \in Range(s) |-> Cardinality({i \in DOMAIN s : s[i] = x})]

\* every order in which a Python set can be iterated
Orders(S) ==
    {f \in [1..Cardinality(S) -> S] : \A x \in S : \E i \in DOMAIN f : f[i] = x}

\* ':'.join(parts)
RECURSIVE Join(_, _)
Join(parts, sep) ==
    IF parts = <<>> THEN ""
    ELSE IF Len(parts) = 1 THEN parts[1]
    ELSE parts[1] \o sep \o Join(Tail(parts), sep)

----------------------------------------------------------------------------
(* bt_tree_parser.py *)

CONTROL_NODES ==
    {"Sequence", "Selector", "Fallback", "Parallel", "ReactiveSequence",
     "ReactiveFallback", "IfThenElse", "WhileDoElse", "ForEach",
     "Switch", "StatefulActionNode", "Control", "MultiRobotControl"}

DECORATOR_NODES ==
    {"Inverter", "ForceSuccess", "ForceFailure", "Repeat", "Retry",
     "Timeout", "Delay", "BlackboardPrecondition", "KeepRunningUntilFailure",
     "Decorator", "ReportFailure", "RetryUntilSuccessful",
     "BlackboardPostCheckString", "BlackboardPostCheckInt",
     "BlackboardPostCheckBool"}

\* NodeType: the values of the enumeration
NodeType == {"control", "action", "condition", "decorator", "subtree"}

\* mutant: the test for the tag Condition is missing
classify_node_no_condition(tag) ==
    IF tag \in CONTROL_NODES THEN "control"
    ELSE IF tag \in DECORATOR_NODES THEN "decorator"
    ELSE IF tag = "SubTree" THEN "subtree"
    ELSE "action"

\* NodeType.value
classify_node(tag) ==
    IF tag \in CONTROL_NODES THEN "control"
    ELSE IF tag \in DECORATOR_NODES THEN "decorator"
    ELSE IF tag = "SubTree" THEN "subtree"
    ELSE IF tag = "Condition" THEN "condition"
    ELSE "action"   \* both the Action*/AlwaysSuccess/AlwaysFailure branch and the default

\* xml.etree.ElementTree.Element has no getparent method (that is lxml's)
HasGetParent == FALSE

\* An element tree is a sequence of elements in document order; element i is
\* [tag, attrib, parent], parent = 0 for the root and < i otherwise.
ChildElements(doc, i) == {j \in DOMAIN doc : doc[j].parent = i}

generate_path(doc, i, parent) ==
    IF parent = None THEN doc[i].tag
    ELSE
        LET parent_element == IF HasGetParent THEN Some(doc[i].parent) ELSE None
            sibling_index ==
                IF parent_element # None
                THEN Cardinality({j \in ChildElements(doc, parent_element[1]) :
                                    j < i /\ doc[j].tag = doc[i].tag})
                ELSE 0
            node_id == Get(doc[i].attrib, "ID", "")
        IN  IF node_id # ""
            THEN parent[1].path \o "/" \o doc[i].tag \o "[@ID='" \o node_id \o "']"
            ELSE parent[1].path \o "/" \o doc[i].tag \o "[" \o ToString(sibling_index) \o "]"

\* the elements _parse_element turns into nodes: a child element with tag
\* BehaviorTree is skipped, with everything below it
RECURSIVE Kept(_, _)
Kept(doc, i) ==
    \/ doc[i].parent = 0
    \/ doc[i].tag # "BehaviorTree" /\ Kept(doc, doc[i].parent)

\* the BTNode built for element i; parent is None or Some(the parent's BTNode)
RECURSIVE parse_element(_, _)
parse_element(doc, i) ==
    LET parent == IF doc[i].parent = 0 THEN None
                  ELSE Some(parse_element(doc, doc[i].parent))
        depth == IF parent = None THEN 0 ELSE parent[1].depth + 1
    IN  [idx |-> i,
         id |-> Get(doc[i].attrib, "ID", doc[i].tag),
         node_type |-> classify_node(doc[i].tag),
         tag |-> doc[i].tag,
         attributes |-> doc[i].attrib,
         parent |-> doc[i].parent,
         depth |-> depth,
         path |-> generate_path(doc, i, parent)]

\* the tree below a <BehaviorTree> element: its nodes by element index; the
\* children of node i are the nodes whose parent is i, in document order
parse_tree(doc) ==
    [i \in {j \in DOMAIN doc : Kept(doc, j)} |->
        IF i = 1 THEN [parse_element(doc, i) EXCEPT !.id = Get(doc[1].attrib, "ID", "MainTree")]
        ELSE parse_element(doc, i)]

----------------------------------------------------------------------------
(* bt_tree_comparator.py *)

\* An insertion-ordered dict is a sequence of [key, value] entries with
\* distinct keys; assigning to a key that is present replaces its value in place.
DictKeys(d) == {d[i].key : i \in DOMAIN d}

DictGet(d, k) ==
    IF k \in DictKeys(d)
    THEN Some(d[CHOOSE i \in DOMAIN d : d[i].key = k].value)
    ELSE None

DictSet(d, k, v) ==
    IF k \in DictKeys(d)
    THEN [d EXCEPT ![CHOOSE i \in DOMAIN d : d[i].key = k].value = v]
    ELSE Append(d, [key |-> k, value |-> v])

\* ChangeType.value
ChangeType == {"added", "removed", "moved", "modified", "unchanged"}

NodeChange(change_type, old_node, new_node, old_path, new_path, attribute_changes) ==
    [change_type |-> change_type,
     old_node |-> old_node,
     new_node |-> new_node,
     old_path |-> old_path,
     new_path |-> new_path,
     attribute_changes |-> attribute_changes]

\* node.children, in document order
RECURSIVE SortedSeq(_)
SortedSeq(S) ==
    IF S = {} THEN <<>>
    ELSE LET m == CHOOSE x \in S : \A y \in S : x <= y
         IN  <<m>> \o SortedSeq(S \ {m})

Children(tree, i) == SortedSeq({j \in DOMAIN tree : tree[j].parent = i})

RECURSIVE traverse_and_map(_, _, _), traverse_children(_, _, _)
traverse_and_map(tree, i, node_map) ==
    traverse_children(tree, Children(tree, i),
                      DictSet(node_map, tree[i].path, tree[i]))
traverse_children(tree, cs, node_map) ==
    IF cs = <<>> THEN node_map
    ELSE traverse_children(tree, Tail(cs), traverse_and_map(tree, Head(cs), node_map))

create_node_map(tree) == traverse_and_map(tree, 1, <<>>)

\* mutant: only the attributes of the old node are compared
attr_differs_old_only(old_node, new_node, attr) ==
    /\ attr \in DOMAIN old_node.attributes
    /\ Get(old_node.attributes, attr, "") # Get(new_node.attributes, attr, "")

\* the attributes whose values differ, a missing one read as ''
attr_differs(old_node, new_node, attr) ==
    Get(old_node.attributes, attr, "") # Get(new_node.attributes, attr, "")

\* mutant: the new value is stored before the old one
compute_attr_changes_swapped(old_node, new_node) ==
    LET all_attrs == DOMAIN old_node.attributes \cup DOMAIN new_node.attributes
    IN  [attr \in {a \in all_attrs : attr_differs(old_node, new_node, a)} |->
            <<Get(new_node.attributes, attr, ""), Get(old_node.attributes, attr, "")>>]

compute_attr_changes(old_node, new_node) ==
    LET all_attrs == DOMAIN old_node.attributes \cup DOMAIN new_node.attributes
    IN  [attr \in {a \in all_attrs : attr_differs(old_node, new_node, a)} |->
            <<Get(old_node.attributes, attr, ""), Get(new_node.attributes, attr, "")>>]

\* mutant: a difference of tag is not recorded
basic_changes_no_tag(old_node, new_node) ==
    IF old_node.node_type # new_node.node_type
    THEN ("node_type" :> <<old_node.node_type, new_node.node_type>>)
    ELSE EmptyDict

\* the local dict `changes`: the tag and node_type differences
basic_changes(old_node, new_node) ==
    LET tagc == IF old_node.tag # new_node.tag
                THEN ("tag" :> <<old_node.tag, new_node.tag>>) ELSE EmptyDict
        typec == IF old_node.node_type # new_node.node_type
                 THEN ("node_type" :> <<old_node.node_type, new_node.node_type>>)
                 ELSE EmptyDict
    IN  tagc @@ typec

\* _compare_nodes: the change appended for a path present in both trees
compare_nodes(old_node, new_node, path) ==
    LET changed == basic_changes(old_node, new_node)
        attr_changes == compute_attr_changes(old_node, new_node)
    IN  IF DOMAIN changed # {} \/ DOMAIN attr_changes # {}
        THEN NodeChange("modified", Some(old_node), Some(new_node),
                        Some(path), Some(path), Some(attr_changes))
        ELSE NodeChange("unchanged", Some(old_node), Some(new_node),
                        Some(path), Some(path), None)

\* mutant: a path whose two nodes do not differ gets no change
classify_path_changed_only(old_nodes, new_nodes, path) ==
    LET old_node == DictGet(old_nodes, path)
        new_node == DictGet(new_nodes, path)
    IN  IF old_node # None /\ new_node # None
        THEN LET c == compare_nodes(old_node[1], new_node[1], path)
             IN  IF c.change_type = "unchanged" THEN <<>> ELSE <<c>>
        ELSE IF old_node # None /\ new_node = None
        THEN <<NodeChange("removed", old_node, None, Some(path), None, None)>>
        ELSE IF old_node = None /\ new_node # None
        THEN <<NodeChange("added", None, new_node, None, Some(path), None)>>
        ELSE <<>>

\* the body of the loop over all_paths (compare_trees, lines 71-91)
classify_path(old_nodes, new_nodes, path) ==
    LET old_node == DictGet(old_nodes, path)
        new_node == DictGet(new_nodes, path)
    IN  IF old_node # None /\ new_node # None
        THEN <<compare_nodes(old_node[1], new_node[1], path)>>
        ELSE IF old_node # None /\ new_node = None
        THEN <<NodeChange("removed", old_node, None, Some(path), None, None)>>
        ELSE IF old_node = None /\ new_node # None
        THEN <<NodeChange("added", None, new_node, None, Some(path), None)>>
        ELSE <<>>

\* mutant: the path that follows a removed one is skipped, as when the
\* collection iterated over shrinks during the loop
RECURSIVE classify_paths_skip(_, _, _)
classify_paths_skip(old_nodes, new_nodes, order) ==
    IF order = <<>> THEN <<>>
    ELSE LET c == classify_path(old_nodes, new_nodes, Head(order))
             rest == IF c # <<>> /\ c[1].change_type = "removed" /\ Len(order) >= 2
                     THEN Tail(Tail(order)) ELSE Tail(order)
         IN  c \o classify_paths_skip(old_nodes, new_nodes, rest)

RECURSIVE classify_paths(_, _, _)
classify_paths(old_nodes, new_nodes, order) ==
    IF order = <<>> THEN <<>>
    ELSE classify_path(old_nodes, new_nodes, Head(order))
         \o classify_paths(old_nodes, new_nodes, Tail(order))

\* mutant: the name is put before the ID
KEY_ATTRS_name_first == <<"name", "ID", "sub_tree_name">>

\* key_attrs
KEY_ATTRS == <<"ID", "name", "sub_tree_name">>

\* mutant: the depth of the node is part of its signature
node_signature_with_depth(node) ==
    LET present == SelectSeq(KEY_ATTRS, LAMBDA attr : attr \in DOMAIN node.attributes)
        attr_parts == [i \in DOMAIN present |->
                          present[i] \o "=" \o node.attributes[present[i]]]
    IN  node.tag \o "(" \o node.node_type \o "):" \o Join(attr_parts, ":")
            \o "@" \o ToString(node.depth)

node_signature(node) ==
    LET present == SelectSeq(KEY_ATTRS, LAMBDA attr : attr \in DOMAIN node.attributes)
        attr_parts == [i \in DOMAIN present |->
                          present[i] \o "=" \o node.attributes[present[i]]]
    IN  node.tag \o "(" \o node.node_type \o "):" \o Join(attr_parts, ":")

\* old_signatures / new_signatures: signature -> list of (path, node)
RECURSIVE signature_map(_, _)
signature_map(node_map, acc) ==
    IF node_map = <<>> THEN acc
    ELSE LET sig == node_signature(Head(node_map).value)
             prev == DictGet(acc, sig)
             inst == <<Head(node_map).key, Head(node_map).value>>
         IN  signature_map(Tail(node_map),
                DictSet(acc, sig, (IF prev = None THEN <<>> ELSE prev[1]) \o <<inst>>))

\* mutant: the test that the two paths differ is missing
is_move_any_path(old_instances, new_instances) ==
    Len(old_instances) = 1 /\ Len(new_instances) = 1

\* mutant: the first instance of each side is paired whatever their number
is_move_first_instance(old_instances, new_instances) ==
    /\ Len(old_instances) >= 1 /\ Len(new_instances) >= 1
    /\ old_instances[1][1] # new_instances[1][1]

\* "Simple case: one-to-one mapping with different paths"; an instance is
\* a (path, node) pair
is_move(old_instances, new_instances) ==
    /\ Len(old_instances) = 1 /\ Len(new_instances) = 1
    /\ old_instances[1][1] # new_instances[1][1]

\* mutant: only the REMOVED entry of a move is dropped
superseded_removed_only(c, old_path, new_path) ==
    c.change_type = "removed" /\ c.old_path = Some(old_path)

\* the filter that drops the REMOVED and ADDED entries of a move
superseded(c, old_path, new_path) ==
    \/ c.change_type = "removed" /\ c.old_path = Some(old_path)
    \/ c.change_type = "added" /\ c.new_path = Some(new_path)

\* mutant: the new path is stored as old_path too
moved_change_same_path(old_instance, new_instance) ==
    NodeChange("moved", Some(old_instance[2]), Some(new_instance[2]),
               Some(new_instance[1]), Some(new_instance[1]), None)

moved_change(old_instance, new_instance) ==
    NodeChange("moved", Some(old_instance[2]), Some(new_instance[2]),
               Some(old_instance[1]), Some(new_instance[1]), None)

\* one iteration of the loop over old_signatures (lines 169-192)
detect_move(chg, sig, old_signatures, new_signatures) ==
    IF DictGet(new_signatures, sig) = None THEN chg
    ELSE
        LET old_instances == DictGet(old_signatures, sig)[1]
            new_instances == DictGet(new_signatures, sig)[1]
        IN  IF is_move(old_instances, new_instances)
            THEN Append(SelectSeq(chg, LAMBDA c :
                            ~superseded(c, old_instances[1][1], new_instances[1][1])),
                        moved_change(old_instances[1], new_instances[1]))
            ELSE chg

\* mutant: the loop over the signatures ends at the first move it finds
RECURSIVE detect_moves_break(_, _, _, _)
detect_moves_break(chg, sigs, old_signatures, new_signatures) ==
    IF sigs = <<>> THEN chg
    ELSE LET next == detect_move(chg, Head(sigs).key, old_signatures, new_signatures)
         IN  IF next # chg THEN next
             ELSE detect_moves_break(next, Tail(sigs), old_signatures, new_signatures)

RECURSIVE detect_moves(_, _, _, _)
detect_moves(chg, sigs, old_signatures, new_signatures) ==
    IF sigs = <<>> THEN chg
    ELSE detect_moves(detect_move(chg, Head(sigs).key, old_signatures, new_signatures),
                      Tail(sigs), old_signatures, new_signatures)

\* mutant: the loop over the signatures is run twice
detect_moved_nodes_twice(chg, old_nodes, new_nodes) ==
    LET old_signatures == signature_map(old_nodes, <<>>)
        new_signatures == signature_map(new_nodes, <<>>)
    IN  detect_moves(detect_moves(chg, old_signatures, old_signatures, new_signatures),
                     old_signatures, old_signatures, new_signatures)

detect_moved_nodes(chg, old_nodes, new_nodes) ==
    LET old_signatures == signature_map(old_nodes, <<>>)
        new_signatures == signature_map(new_nodes, <<>>)
    IN  detect_moves(chg, old_signatures, old_signatures, new_signatures)

all_paths(old_tree, new_tree) ==
    DictKeys(create_node_map(old_tree)) \cup DictKeys(create_node_map(new_tree))

\* compare_trees, with `order` the order in which the set all_paths is iterated
compare_trees(old_tree, new_tree, order) ==
    LET old_nodes == create_node_map(old_tree)
        new_nodes == create_node_map(new_tree)
    IN  detect_moved_nodes(classify_paths(old_nodes, new_nodes, order),
                           old_nodes, new_nodes)

----------------------------------------------------------------------------
(* Input documents *)

\* attribute dictionaries and tags of the elements below the root
Labels ==
    {[tag |-> "Action", attrib |-> ("name" :> "x")],
     [tag |-> "Action", attrib |-> ("name" :> "y" @@ "wait_time" :> "")],
     [tag |-> "Sequence", attrib |-> ("ID" :> "B")]}

RootLabel == [tag |-> "BehaviorTree", attrib |-> ("ID" :> "MainTree")]

\* parent vectors of the ordered trees with n elements, numbered in document order
RECURSIVE OnRightmostPath(_, _, _)
OnRightmostPath(par, last, p) ==
    \/ p = last
    \/ last > 1 /\ OnRightmostPath(par, par[last], p)

Shapes(n) ==
    {par \in [1..n -> 0..(n-1)] :
        /\ par[1] = 0
        /\ \A i \in 2..n : par[i] >= 1 /\ par[i] < i /\ OnRightmostPath(par, i-1, par[i])}

DocsOfSize(n) ==
    {[i \in 1..n |-> [tag |-> (IF i = 1 THEN RootLabel.tag ELSE lab[i].tag),
                      attrib |-> (IF i = 1 THEN RootLabel.attrib ELSE lab[i].attrib),
                      parent |-> par[i]]] :
        par \in Shapes(n), lab \in [1..n -> Labels]}

Docs == UNION {DocsOfSize(n) : n \in 1..MaxNodes}

----------------------------------------------------------------------------
(* State machine *)

\* BTNode trees a caller builds by hand and passes to compare_trees: one node
\* per path of a non-empty set of paths, the first being the root
HandPaths == <<"p", "q">>

HandContents ==
    {[tag |-> "Action", node_type |-> "action", attributes |-> EmptyDict],
     [tag |-> "Wait", node_type |-> "action", attributes |-> EmptyDict],
     [tag |-> "Action", node_type |-> "condition", attributes |-> EmptyDict],
     [tag |-> "Action", node_type |-> "action", attributes |-> ("name" :> "x")],
     [tag |-> "Action", node_type |-> "action", attributes |-> ("name" :> "")]}

HandNode(i, parent, path, c) ==
    [idx |-> i,
     id |-> Get(c.attributes, "ID", c.tag),
     node_type |-> c.node_type,
     tag |-> c.tag,
     attributes |-> c.attributes,
     parent |-> parent,
     depth |-> (IF parent = 0 THEN 0 ELSE 1),
     path |-> path]

HandTrees ==
    {[i \in {1} |-> HandNode(1, 0, HandPaths[r], c)] :
        r \in DOMAIN HandPaths, c \in HandContents}
    \cup
    UNION {{[i \in {1, 2} |-> IF i = 1 THEN HandNode(1, 0, HandPaths[r], c1)
                              ELSE HandNode(2, 1, HandPaths[k], c2)] :
                k \in DOMAIN HandPaths \ {r}, c1 \in HandContents, c2 \in HandContents} :
           r \in DOMAIN HandPaths}

\* no comparator is kept between calls and no pure function is applied alone
NoCalls == heap = <<>> /\ selfChanges = 0 /\ returned = <<>>
NoFn == arg = None /\ ret = None

\* compare_files is about to read two files
InitFiles ==
    /\ oldDoc \in {Some(d) : d \in Docs}
    /\ newDoc \in {Some(d) : d \in {e \in Docs : Len(oldDoc[1]) + Len(e) <= MaxTotal}}
    /\ oldTree = None
    /\ newTree = None
    /\ changes = <<>>
    /\ pc = "start"
    /\ NoCalls /\ NoFn

\* compare_trees is about to be called on two trees built by hand
InitTrees ==
    /\ oldDoc = None
    /\ newDoc = None
    /\ oldTree \in {Some(t) : t \in HandTrees}
    /\ newTree \in {Some(t) : t \in HandTrees}
    /\ changes = <<>>
    /\ pc = "parsed"
    /\ NoCalls /\ NoFn

Init == InitFiles \/ InitTrees

\* compare_files, lines 39-43: both files are parsed
ParseFiles ==
    /\ pc = "start"
    /\ oldTree' = Some(parse_tree(oldDoc[1]))
    /\ newTree' = Some(parse_tree(newDoc[1]))
    /\ pc' = "parsed"
    /\ UNCHANGED <<oldDoc, newDoc, changes, callVars, fnVars>>

\* compare_files line 58 / compare_trees: self.changes is rebuilt and returned
CompareTrees ==
    /\ pc = "parsed"
    /\ \E order \in Orders(all_paths(oldTree[1], newTree[1])) :
          changes' = compare_trees(oldTree[1], newTree[1], order)
    /\ pc' = "done"
    /\ UNCHANGED <<oldDoc, newDoc, oldTree, newTree, callVars, fnVars>>

Next == ParseFiles \/ CompareTrees

Spec == Init /\ [][Next]_vars

----------------------------------------------------------------------------
(* One comparator called several times *)

\* largest number of compare_trees calls made on the comparator
MaxCalls == 2

\* the trees of the calls: the hand-built trees of action nodes without attributes
CallTrees ==
    {t \in HandTrees :
        \A i \in DOMAIN t : t[i].attributes = EmptyDict /\ t[i].node_type = "action"}

\* A list object is an index of heap; heap[ref] is what the list holds now.
\* mutant: line 62 empties the list in place (self.changes.clear())
rebind_empty_clear(h, ref) == [heap |-> [h EXCEPT ![ref] = <<>>], ref |-> ref]

\* self.changes = [] (line 62): a new list object is bound
rebind_empty(h, ref) == [heap |-> Append(h, <<>>), ref |-> Len(h) + 1]

\* some signature passes the test of lines 170-179
has_move(old_nodes, new_nodes) ==
    LET old_signatures == signature_map(old_nodes, <<>>)
        new_signatures == signature_map(new_nodes, <<>>)
    IN  \E i \in DOMAIN old_signatures :
            /\ DictGet(new_signatures, old_signatures[i].key) # None
            /\ is_move(old_signatures[i].value,
                       DictGet(new_signatures, old_signatures[i].key)[1])

\* compare_trees on the comparator whose self.changes is the list ref of the
\* heap h: the heap and the list bound to self.changes (the one returned)
\* when it returns. The loop of lines 71-91 appends to the list bound at line
\* 62; each move binds a new, filtered list (line 181) and appends to it: of
\* these only the last is kept here, nothing refers to the others.
compare_trees_call(h, ref, old_tree, new_tree, order) ==
    LET bound == rebind_empty(h, ref)
        old_nodes == create_node_map(old_tree)
        new_nodes == create_node_map(new_tree)
        looped == bound.heap[bound.ref] \o classify_paths(old_nodes, new_nodes, order)
        h1 == [bound.heap EXCEPT ![bound.ref] = looped]
    IN  IF has_move(old_nodes, new_nodes)
        THEN [heap |-> Append(h1, detect_moved_nodes(looped, old_nodes, new_nodes)),
              ref |-> Len(h1) + 1]
        ELSE [heap |-> h1, ref |-> bound.ref]

\* comparator = BTTreeComparator(); the caller holds two trees
InitCalls ==
    /\ oldDoc = None
    /\ newDoc = None
    /\ oldTree \in {Some(t) : t \in CallTrees}
    /\ newTree \in {Some(t) : t \in CallTrees}
    /\ changes = <<>>
    /\ pc = "calls"
    /\ heap = << <<>> >>     \* line 33: self.changes = [], the first list object
    /\ selfChanges = 1
    /\ returned = <<>>
    /\ NoFn

\* result = comparator.compare_trees(a, b), a and b each one of the two trees:
\* the caller keeps the list returned (ref), and here also what it held when
\* it was returned (value) and the arguments of the call
CallEffect ==
    /\ pc = "calls"
    /\ Len(returned) < MaxCalls
    /\ \E old_root \in {oldTree[1], newTree[1]}, new_root \in {oldTree[1], newTree[1]} :
         \E order \in Orders(all_paths(old_root, new_root)) :
            LET res == compare_trees_call(heap, selfChanges, old_root, new_root, order)
            IN  /\ heap' = res.heap
                /\ selfChanges' = res.ref
                /\ returned' = Append(returned,
                                      [ref |-> res.ref, value |-> res.heap[res.ref],
                                       old_root |-> old_root, new_root |-> new_root])

\* mutant: the default '' read for a missing attribute is stored in the node
\* (attributes.setdefault instead of attributes.get)
CallStoringDefaults ==
    /\ CallEffect
    /\ oldTree' = Some([i \in DOMAIN oldTree[1] |->
                           [oldTree[1][i] EXCEPT !.attributes = @ @@ ("name" :> "")]])
    /\ UNCHANGED <<oldDoc, newDoc, newTree, changes, pc, fnVars>>

\* no statement of compare_trees and of what it calls assigns to a node, to
\* its attributes or to its children
Call ==
    /\ CallEffect
    /\ UNCHANGED <<fileVars, pc, fnVars>>

NextCalls == Call

SpecCalls == InitCalls /\ [][NextCalls]_vars

----------------------------------------------------------------------------
(* One parser called several times *)

\* largest number of BehaviorTree definitions in a file
MaxTrees == 2

\* the definitions of a file: a BehaviorTree element without ID, or with one
\* of two IDs, without children or with one
TreeDocs ==
    {<<[tag |-> "BehaviorTree", attrib |-> a, parent |-> 0]>> \o kids :
        a \in {EmptyDict, "ID" :> "MainTree", "ID" :> "T1"},
        kids \in {<<>>, <<[tag |-> "Action", attrib |-> ("name" :> "x"), parent |-> 1]>>}}

\* a file is what root.findall('.//BehaviorTree') finds in it, in document order
Files == UNION {[1..n -> TreeDocs] : n \in 0..MaxTrees}

\* self.all_nodes.append(node) (line 97): a node is appended after its children
RECURSIVE post_order(_, _), post_order_children(_, _)
post_order(tree, i) ==
    post_order_children(tree, Children(tree, i)) \o <<tree[i]>>
post_order_children(tree, cs) ==
    IF cs = <<>> THEN <<>>
    ELSE post_order(tree, Head(cs)) \o post_order_children(tree, Tail(cs))

\* the loop of lines 58-62 on a parser whose self.trees and self.all_nodes
\* are given: what the two hold after it
RECURSIVE parse_file_loop(_, _)
parse_file_loop(self, file) ==
    IF file = <<>> THEN self
    ELSE LET bt_root == parse_tree(Head(file))
         IN  parse_file_loop([trees |-> DictSet(self.trees, bt_root[1].id, bt_root),
                              all_nodes |-> self.all_nodes \o post_order(bt_root, 1)],
                             Tail(file))

\* parser = BTTreeParser(): heap[1] is the dictionary bound to self.trees
\* (line 48), heap[2] the list bound to self.all_nodes (line 49); no
\* statement binds another object to either
InitParser ==
    /\ oldDoc = None
    /\ newDoc = None
    /\ oldTree = None
    /\ newTree = None
    /\ changes = <<>>
    /\ pc = "parser"
    /\ heap = << <<>>, <<>> >>
    /\ selfChanges = 0
    /\ returned = <<>>
    /\ NoFn

\* result = parser.parse_file(file) on a well-formed file: line 64 returns
\* self.trees itself; the caller keeps the dictionary returned (ref), and
\* here also what it held when it was returned (value) and the file
ParseFile ==
    /\ pc = "parser"
    /\ Len(returned) < MaxCalls
    /\ \E file \in Files :
          LET self == parse_file_loop([trees |-> heap[1], all_nodes |-> heap[2]], file)
          IN  /\ heap' = <<self.trees, self.all_nodes>>
              /\ returned' = Append(returned,
                                    [ref |-> 1, value |-> self.trees, file |-> file])
    /\ UNCHANGED <<fileVars, pc, selfChanges, fnVars>>

NextParser == ParseFile

SpecParser == InitParser /\ [][NextParser]_vars

----------------------------------------------------------------------------
(* enhanced_branch_analyzer.py: the trees of the two branches of one file *)

\* {**a, **b}
RECURSIVE dict_merge(_, _)
dict_merge(a, b) ==
    IF b = <<>> THEN a
    ELSE dict_merge(DictSet(a, Head(b).key, Head(b).value), Tail(b))

\* _load_subtrees (lines 493-542) on a temporary file: the directory of the
\* file has no sub_tree directory beside or above it
load_subtrees == <<>>

\* _tree_contains_nodes (lines 91-108)
tree_contains_nodes(tree, node_ids) ==
    /\ node_ids # {}
    /\ \E i \in DOMAIN tree : Get(tree[i].attributes, "ID", "") \in node_ids

\* _find_tree_with_changes (lines 33-89) for git changes that name none of
\* the nodes of lines 37-57; node_ids is change_node_ids. None is the
\* IndexError of line 87 when neither mapping has a tree.
find_tree_with_changes(source_trees, target_trees, node_ids) ==
    IF "MainTree" \in DictKeys(source_trees) THEN Some("MainTree")
    ELSE IF \E i \in DOMAIN target_trees :
                tree_contains_nodes(target_trees[i].value, node_ids)
    THEN LET first == CHOOSE i \in DOMAIN target_trees :
                 /\ tree_contains_nodes(target_trees[i].value, node_ids)
                 /\ \A j \in 1..(i-1) :
                       ~tree_contains_nodes(target_trees[j].value, node_ids)
         IN  Some(target_trees[first].key)
    ELSE IF source_trees # <<>> THEN Some(source_trees[1].key)
    ELSE IF target_trees # <<>> THEN Some(target_trees[1].key)
    ELSE None

\* lines 444-482: the trees handed to _tree_to_d3_format_with_subtrees with
\* 'old' and with 'new' and the id selected; old is None where line 470 or
\* 471 puts the Empty placeholder. source_content is None or Some(file).
generate_tree_with_git_changes(source_content, target_content, node_ids) ==
    LET parser0 == [trees |-> <<>>, all_nodes |-> <<>>]
        parser1 == IF source_content # None
                   THEN parse_file_loop(parser0, source_content[1])
                   ELSE parser0
        parser2 == parse_file_loop(parser1, target_content)
        \* line 447 binds parser.trees itself, or a new empty dictionary
        source_trees == IF source_content # None THEN parser2.trees ELSE <<>>
        target_trees == parser2.trees
        all_source_trees == dict_merge(source_trees, load_subtrees)
        all_target_trees == dict_merge(target_trees, load_subtrees)
        target_tree_id ==
            find_tree_with_changes(all_source_trees, all_target_trees, node_ids)
    IN  IF target_tree_id = None
        THEN [returns |-> "None", tree_id |-> None, old |-> None, new |-> None]
        ELSE [returns |-> "dict",
              tree_id |-> target_tree_id,
              old |-> DictGet(all_source_trees, target_tree_id[1]),
              new |-> DictGet(all_target_trees, target_tree_id[1])]

\* the analyzer has read the file on the two branches (lines 425-426)
InitAnalyzer ==
    /\ oldDoc = None
    /\ newDoc = None
    /\ oldTree = None
    /\ newTree = None
    /\ changes = <<>>
    /\ pc = "analyzer"
    /\ NoCalls
    /\ arg \in {Some([fn |-> "_generate_tree_with_git_changes",
                      source_content |-> s, target_content |-> t, node_ids |-> n]) :
                   s \in {None} \cup {Some(f) : f \in Files},
                   t \in {None} \cup {Some(f) : f \in Files},
                   n \in {{}, {"T1"}}}
    /\ ret = None

\* lines 428-429: without target content None is returned
NoTargetContent ==
    /\ pc = "analyzer" /\ ret = None
    /\ arg[1].target_content = None
    /\ ret' = Some([returns |-> "None", tree_id |-> None, old |-> None, new |-> None])
    /\ UNCHANGED <<fileVars, pc, callVars, arg>>

\* lines 431-486
GenerateTree ==
    /\ pc = "analyzer" /\ ret = None
    /\ arg[1].target_content # None
    /\ ret' = Some(generate_tree_with_git_changes(
                       arg[1].source_content, arg[1].target_content[1], arg[1].node_ids))
    /\ UNCHANGED <<fileVars, pc, callVars, arg>>

NextAnalyzer == NoTargetContent \/ GenerateTree

SpecAnalyzer == InitAnalyzer /\ [][NextAnalyzer]_vars

----------------------------------------------------------------------------
(* compare_files on files with several BehaviorTree definitions *)

\* largest number of BehaviorTree definitions in the two files together
MaxFileTrees == 3

\* lines 45-50: the id of the tree taken from one file; None is the
\* IndexError of list(trees.keys())[0] on a file without a tree
select_tree_id(trees, tree_id) ==
    IF tree_id # None THEN tree_id
    ELSE IF "MainTree" \in DictKeys(trees) THEN Some("MainTree")
    ELSE IF trees # <<>> THEN Some(trees[1].key)
    ELSE None

\* lines 39-56: the exception raised, or "" and the two trees for line 58
select_trees(old_file, new_file, tree_id) ==
    LET old_trees == parse_file_loop([trees |-> <<>>, all_nodes |-> <<>>], old_file).trees
        new_trees == parse_file_loop([trees |-> <<>>, all_nodes |-> <<>>], new_file).trees
        old_tree_id == select_tree_id(old_trees, tree_id)
        new_tree_id == select_tree_id(new_trees, tree_id)
    IN  IF old_tree_id = None \/ new_tree_id = None
        THEN [raises |-> "IndexError", old |-> None, new |-> None]
        ELSE IF old_tree_id[1] \notin DictKeys(old_trees)
        THEN [raises |-> "ValueError", old |-> None, new |-> None]
        ELSE IF new_tree_id[1] \notin DictKeys(new_trees)
        THEN [raises |-> "ValueError", old |-> None, new |-> None]
        ELSE [raises |-> "",
              old |-> DictGet(old_trees, old_tree_id[1]),
              new |-> DictGet(new_trees, new_tree_id[1])]

\* compare_files(old_file, new_file, tree_id) is about to be called
InitSelect ==
    /\ oldDoc = None
    /\ newDoc = None
    /\ oldTree = None
    /\ newTree = None
    /\ changes = <<>>
    /\ pc = "select"
    /\ NoCalls
    /\ arg \in {Some([fn |-> "compare_files", old_file |-> o, new_file |-> n,
                      tree_id |-> t]) :
                   o \in Files, n \in Files,
                   t \in {None, Some("MainTree"), Some("T1")}}
    /\ Len(arg[1].old_file) + Len(arg[1].new_file) <= MaxFileTrees
    /\ ret = None

\* compare_files raises at line 47, 48, 53 or 55
CompareFilesRaises ==
    /\ pc = "select" /\ ret = None
    /\ LET sel == select_trees(arg[1].old_file, arg[1].new_file, arg[1].tree_id)
       IN  /\ sel.raises # ""
           /\ ret' = Some([raises |-> sel.raises])
    /\ UNCHANGED <<fileVars, pc, callVars, arg>>

\* compare_files returns compare_trees of the two trees (line 58)
CompareFilesReturns ==
    /\ pc = "select" /\ ret = None
    /\ LET sel == select_trees(arg[1].old_file, arg[1].new_file, arg[1].tree_id)
       IN  /\ sel.raises = ""
           /\ oldTree' = sel.old
           /\ newTree' = sel.new
           /\ \E order \in Orders(all_paths(sel.old[1], sel.new[1])) :
                 changes' = compare_trees(sel.old[1], sel.new[1], order)
           /\ ret' = Some([raises |-> ""])
    /\ UNCHANGED <<oldDoc, newDoc, pc, callVars, arg>>

NextSelect == CompareFilesRaises \/ CompareFilesReturns

SpecSelect == InitSelect /\ [][NextSelect]_vars

----------------------------------------------------------------------------
(* The pure functions applied alone *)

\* the nodes _node_signature is applied to: each of four attributes is
\* missing, empty or "a"
SigAttrNames == {"ID", "name", "sub_tree_name", "wait_time"}

SigAttributes ==
    UNION {[names -> {"", "a"}] : names \in SUBSET SigAttrNames}

SigNodes ==
    {HandNode(1, 0, "p", [tag |-> t, node_type |-> k, attributes |-> a]) :
        t \in {"Action", "SubTree"}, k \in {"action", "subtree"}, a \in SigAttributes}

\* the tags _classify_node is applied to: those of the two tables, the two
\* named in the tests, and others
Tags ==
    CONTROL_NODES \cup DECORATOR_NODES \cup
    {"SubTree", "Condition", "Action", "ActionMove", "AlwaysSuccess",
     "AlwaysFailure", "Wait", "subtree", "condition", "BehaviorTree", ""}

InitFn ==
    /\ oldDoc = None
    /\ newDoc = None
    /\ oldTree = None
    /\ newTree = None
    /\ changes = <<>>
    /\ pc = "fn"
    /\ NoCalls
    /\ arg \in {Some([fn |-> "_node_signature", node |-> n]) : n \in SigNodes}
              \cup {Some([fn |-> "_classify_node", tag |-> t]) : t \in Tags}
    /\ ret = None

\* self._node_signature(node)
NodeSignature ==
    /\ pc = "fn" /\ ret = None
    /\ arg[1].fn = "_node_signature"
    /\ ret' = Some(node_signature(arg[1].node))
    /\ UNCHANGED <<fileVars, pc, callVars, arg>>

\* self._classify_node(tag)
ClassifyNode ==
    /\ pc = "fn" /\ ret = None
    /\ arg[1].fn = "_classify_node"
    /\ ret' = Some(classify_node(arg[1].tag))
    /\ UNCHANGED <<fileVars, pc, callVars, arg>>

NextFn == NodeSignature \/ ClassifyNode

SpecFn == InitFn /\ [][NextFn]_vars

----------------------------------------------------------------------------
(* _node_signature applied to attribute values with ":" and "=" *)

\* the values of ID and name: plain ones, and ones that hold a ":" and a "="
SepIDs == {"a", "a:name=a", "a:name=b"}
SepNames == {"a", "b", "a:sub_tree_name=a"}

SepAttributes ==
    UNION {{[attr \in names |->
                CASE attr = "ID" -> id [] attr = "name" -> nm [] OTHER -> "a"] :
               id \in SepIDs, nm \in SepNames} :
           names \in SUBSET {"ID", "name", "sub_tree_name"}}

SepNodes ==
    {HandNode(1, 0, "p", [tag |-> t, node_type |-> "action", attributes |-> a]) :
        t \in {"Action", "Wait"}, a \in SepAttributes}

InitSep ==
    /\ oldDoc = None
    /\ newDoc = None
    /\ oldTree = None
    /\ newTree = None
    /\ changes = <<>>
    /\ pc = "fn"
    /\ NoCalls
    /\ arg \in {Some([fn |-> "_node_signature", node |-> n]) : n \in SepNodes}
    /\ ret = None

NextSep == NodeSignature

SpecSep == InitSep /\ [][NextSep]_vars

----------------------------------------------------------------------------
(* A leaf appended to a document *)

\* element j is element k or below it
RECURSIVE InSubtree(_, _, _)
InSubtree(doc, j, k) ==
    \/ j = k
    \/ j > k /\ InSubtree(doc, doc[j].parent, k)

\* the document doc with one more element, a leaf with the tag and the
\* attributes of label, as the last child of element k: in document order it
\* comes after everything below k
AppendLeaf(doc, k, label) ==
    LET pos == 1 + Cardinality({j \in DOMAIN doc : j <= k \/ InSubtree(doc, j, k)})
    IN  [i \in 1..(Len(doc) + 1) |->
            IF i < pos THEN doc[i]
            ELSE IF i = pos
            THEN [tag |-> label.tag, attrib |-> label.attrib, parent |-> k]
            ELSE [doc[i-1] EXCEPT !.parent = IF @ >= pos THEN @ + 1 ELSE @]]

\* the leaves that are appended: elements with an ID
LeafLabels ==
    {[tag |-> "Sequence", attrib |-> ("ID" :> "B")],
     [tag |-> "Action", attrib |-> ("ID" :> "C")]}

\* compare_files is about to read a file and the same file with one more leaf
InitAppend ==
    /\ oldDoc \in {Some(d) : d \in Docs}
    /\ newDoc \in {Some(AppendLeaf(oldDoc[1], k, label)) :
                       k \in DOMAIN oldDoc[1], label \in LeafLabels}
    /\ oldTree = None
    /\ newTree = None
    /\ changes = <<>>
    /\ pc = "start"
    /\ NoCalls /\ NoFn

SpecAppend == InitAppend /\ [][Next]_vars

----------------------------------------------------------------------------
(* A node re-parented: root > middle > leaf becomes root > leaf *)

\* the tags of the root and of the middle node, the tag and the ID of the leaf
ReparentCases ==
    [root : {"Sequence", "BehaviorTree"},
     middle : {"Fallback", "Sequence", "Inverter"},
     leaf : {"Action", "SubTree"},
     id : {"A", "B", "MainTree"}]

OldReparentDoc(c) ==
    <<[tag |-> c.root, attrib |-> EmptyDict, parent |-> 0],
      [tag |-> c.middle, attrib |-> EmptyDict, parent |-> 1],
      [tag |-> c.leaf, attrib |-> ("ID" :> c.id), parent |-> 2]>>

NewReparentDoc(c) ==
    <<[tag |-> c.root, attrib |-> EmptyDict, parent |-> 0],
      [tag |-> c.leaf, attrib |-> ("ID" :> c.id), parent |-> 1]>>

\* the two trees are about to be parsed and compared
InitReparent ==
    /\ \E c \in ReparentCases :
          /\ oldDoc = Some(OldReparentDoc(c))
          /\ newDoc = Some(NewReparentDoc(c))
    /\ oldTree = None
    /\ newTree = None
    /\ changes = <<>>
    /\ pc = "start"
    /\ NoCalls /\ NoFn

SpecReparent == InitReparent /\ [][Next]_vars

----------------------------------------------------------------------------
(* Files whose ID values hold "/", "[" and "'" *)

QuoteLabels ==
    {[tag |-> "Action", attrib |-> ("ID" :> "A")],
     [tag |-> "Sequence", attrib |-> ("ID" :> "B")],
     [tag |-> "Action", attrib |-> ("ID" :> "A']/Sequence[@ID='B")]}

QuoteDocsOfSize(n) ==
    {[i \in 1..n |-> [tag |-> (IF i = 1 THEN RootLabel.tag ELSE lab[i].tag),
                      attrib |-> (IF i = 1 THEN RootLabel.attrib ELSE lab[i].attrib),
                      parent |-> par[i]]] :
        par \in Shapes(n), lab \in [1..n -> QuoteLabels]}

QuoteDocs == UNION {QuoteDocsOfSize(n) : n \in 1..MaxNodes}

\* compare_files is about to read two such files
InitQuote ==
    /\ oldDoc \in {Some(d) : d \in QuoteDocs}
    /\ newDoc \in {Some(d) : d \in QuoteDocs}
    /\ oldTree = None
    /\ newTree = None
    /\ changes = <<>>
    /\ pc = "start"
    /\ NoCalls /\ NoFn

SpecQuote == InitQuote /\ [][Next]_vars

----------------------------------------------------------------------------
(* Vocabulary of the properties *)

Done == pc = "done"
OldT == oldTree[1]
NewT == newTree[1]
Nodes(tree) == {tree[i] : i \in DOMAIN tree}
Paths(tree) == {tree[i].path : i \in DOMAIN tree}
PathUnique(tree) == \A i, j \in DOMAIN tree : i # j => tree[i].path # tree[j].path

\* compare_trees has returned for two path-unique trees
ValidRun == Done /\ PathUnique(OldT) /\ PathUnique(NewT)

Of(kind) == {i \in DOMAIN changes : changes[i].change_type = kind}
Mentions(i, p) == changes[i].old_path = Some(p) \/ changes[i].new_path = Some(p)
SigCount(tree, sig) == Cardinality({n \in Nodes(tree) : node_signature(n) = sig})

----------------------------------------------------------------------------
(* C1 *)

\* C1: for two path-unique trees, every path of the old or the new tree is in
\* exactly one change of the result: one non-Moved change, or else one Moved
\* change (as its old_path or its new_path), never both and never none.
C1_Partition ==
    ValidRun =>
        \A p \in Paths(OldT) \cup Paths(NewT) :
            LET plain == {i \in DOMAIN changes :
                            changes[i].change_type # "moved" /\ Mentions(i, p)}
                moved == {i \in Of("moved") : Mentions(i, p)}
            IN  Cardinality(plain) + Cardinality(moved) = 1

----------------------------------------------------------------------------
(* C2 *)

\* C2: compare_trees(T, T) of a path-unique tree T returns exactly one
\* Unchanged change per node of T and no change of any other kind.
C2_IdentityRoundTrip ==
    (ValidRun /\ oldTree = newTree) =>
        /\ \A i \in DOMAIN changes : changes[i].change_type = "unchanged"
        /\ \A n \in Nodes(OldT) :
              Cardinality({i \in DOMAIN changes :
                              /\ changes[i].old_node = Some(n)
                              /\ changes[i].new_node = Some(n)}) = 1
        /\ Len(changes) = Cardinality(Nodes(OldT))

\* a tree with two nodes of one signature has been compared with itself
C2_Witness ==
    /\ ValidRun /\ oldTree = newTree
    /\ \E m, n \in Nodes(OldT) : m # n /\ node_signature(m) = node_signature(n)
    /\ Len(changes) >= 2

----------------------------------------------------------------------------
(* C3 *)

\* an old node and a new node that alone carry their signature, at different paths
UniquePair(o, n) ==
    /\ node_signature(o) = node_signature(n)
    /\ SigCount(OldT, node_signature(o)) = 1
    /\ SigCount(NewT, node_signature(n)) = 1
    /\ o.path # n.path

----------------------------------------------------------------------------
(* C4 *)

Ambiguous(sig) == SigCount(OldT, sig) >= 2 \/ SigCount(NewT, sig) >= 2

----------------------------------------------------------------------------
(* C5 *)

\* C5: in every Modified change, attribute_changes has exactly the attribute
\* names that are present on only one of the two nodes or have different
\* values on them, each with the pair (old value, new value), '' standing for
\* the missing side.
C5_AttributeDeltaComplete ==
    ValidRun =>
        \A i \in Of("modified") :
            LET o == changes[i].old_node[1].attributes
                n == changes[i].new_node[1].attributes
                delta == changes[i].attribute_changes[1]
                onlyOne == (DOMAIN o \ DOMAIN n) \cup (DOMAIN n \ DOMAIN o)
                differing == {a \in DOMAIN o \cap DOMAIN n : o[a] # n[a]}
            IN  /\ DOMAIN delta = onlyOne \cup differing
                /\ \A a \in DOMAIN delta : delta[a] = <<Get(o, a, ""), Get(n, a, "")>>

----------------------------------------------------------------------------
(* C6 *)

NodeAt(tree, p) == CHOOSE n \in Nodes(tree) : n.path = p

\* the two nodes differ in tag, in kind, or in the value of an attribute, a
\* missing attribute read as ''
ContentDiffers(o, n) ==
    \/ o.tag # n.tag
    \/ o.node_type # n.node_type
    \/ \E a \in DOMAIN o.attributes \cup DOMAIN n.attributes :
          Get(o.attributes, a, "") # Get(n.attributes, a, "")

\* C6: for a path present in both trees the result has exactly one change
\* that is Modified or Unchanged; it holds the two nodes at that path and is
\* Modified when they differ in tag, kind or an attribute value, Unchanged
\* otherwise.
C6_ContentComparison ==
    ValidRun =>
        \A p \in Paths(OldT) \cap Paths(NewT) :
            LET o == NodeAt(OldT, p)
                n == NodeAt(NewT, p)
                at == {i \in Of("modified") \cup Of("unchanged") : Mentions(i, p)}
            IN  /\ Cardinality(at) = 1
                /\ \A i \in at :
                      /\ changes[i].old_node = Some(o)
                      /\ changes[i].new_node = Some(n)
                      /\ changes[i].change_type =
                            IF ContentDiffers(o, n) THEN "modified" ELSE "unchanged"

\* a Modified change for two nodes that differ in the tag only, next to an
\* Unchanged one
C6_Witness ==
    /\ ValidRun
    /\ \E i \in Of("modified") :
          /\ changes[i].old_node[1].tag # changes[i].new_node[1].tag
          /\ changes[i].old_node[1].node_type = changes[i].new_node[1].node_type
          /\ changes[i].old_node[1].attributes = changes[i].new_node[1].attributes
    /\ Of("unchanged") # {}

----------------------------------------------------------------------------
(* C7 *)

\* C7: in every returned list a Removed change has old_path and old_node set
\* and new_path and new_node unset, an Added change the reverse; Modified and
\* Unchanged changes have both paths set and equal; a Moved change has both
\* paths set and different.
C7_FieldPresence ==
    Done =>
        \A i \in DOMAIN changes :
            LET c == changes[i]
            IN  /\ c.change_type = "removed" =>
                      /\ c.old_path # None /\ c.old_node # None
                      /\ c.new_path = None /\ c.new_node = None
                /\ c.change_type = "added" =>
                      /\ c.new_path # None /\ c.new_node # None
                      /\ c.old_path = None /\ c.old_node = None
                /\ c.change_type \in {"modified", "unchanged"} =>
                      /\ c.old_path # None /\ c.new_path # None
                      /\ c.old_path = c.new_path
                /\ c.change_type = "moved" =>
                      /\ c.old_path # None /\ c.new_path # None
                      /\ c.old_path # c.new_path

\* a returned list with a Moved, an Added and an Unchanged change
C7_Witness ==
    /\ Done
    /\ Of("moved") # {}
    /\ Of("added") # {}
    /\ Of("unchanged") # {}

----------------------------------------------------------------------------
(* C8 *)

Parsed == pc # "start" /\ oldDoc # None

\* C8: in every tree built by the parser no two distinct nodes have the same path.
C8_PathUnique ==
    Parsed => PathUnique(OldT) /\ PathUnique(NewT)

----------------------------------------------------------------------------
(* C9 *)

\* the number of preceding siblings of element i with the tag of element i
PrecedingSameTag(doc, i) ==
    Cardinality({j \in DOMAIN doc :
                    j < i /\ doc[j].parent = doc[i].parent /\ doc[j].tag = doc[i].tag})

\* the path the rule of C9 gives node i, from the path of its parent node
RulePath(doc, tree, i) ==
    IF doc[i].parent = 0 THEN doc[i].tag
    ELSE IF "ID" \in DOMAIN doc[i].attrib
    THEN tree[doc[i].parent].path \o "/" \o doc[i].tag
            \o "[@ID='" \o doc[i].attrib["ID"] \o "']"
    ELSE tree[doc[i].parent].path \o "/" \o doc[i].tag
            \o "[" \o ToString(PrecedingSameTag(doc, i)) \o "]"

\* C9: the root's path is its tag; every other node's path is
\* parentPath/tag[@ID='v'] when it carries an ID attribute v, and otherwise
\* parentPath/tag[k], k the number of preceding siblings with the same tag.
C9_PathAssignment ==
    Parsed =>
        /\ \A i \in DOMAIN OldT : OldT[i].path = RulePath(oldDoc[1], OldT, i)
        /\ \A i \in DOMAIN NewT : NewT[i].path = RulePath(newDoc[1], NewT, i)

----------------------------------------------------------------------------
(* C10 *)

\* one fixed order of iteration
RefOrder(S) == CHOOSE o \in Orders(S) : TRUE

\* C10: for two path-unique trees compare_trees has a result, a list of
\* changes, in whatever order the paths are iterated, and the result of a run
\* is, as a multiset, the same whatever that order: it is the multiset of
\* the run in the reference order.
C10_TotalDeterministic ==
    /\ (pc = "parsed" /\ PathUnique(OldT) /\ PathUnique(NewT)) =>
          /\ Orders(all_paths(OldT, NewT)) # {}
          /\ \A order \in Orders(all_paths(OldT, NewT)) :
                LET res == compare_trees(OldT, NewT, order)
                IN  \A i \in DOMAIN res : res[i].change_type \in ChangeType
    /\ ValidRun =>
          LET ref == compare_trees(OldT, NewT, RefOrder(all_paths(OldT, NewT)))
          IN  SeqToBag(changes) = SeqToBag(ref)

\* a run with a move that returned its changes in another order than the
\* reference run
C10_Witness ==
    /\ ValidRun
    /\ Of("moved") # {}
    /\ LET ref == compare_trees(OldT, NewT, RefOrder(all_paths(OldT, NewT)))
       IN  changes # ref

----------------------------------------------------------------------------
(* C11 *)

\* the node map filled when the nodes of a tree are visited in the order trav
RECURSIVE map_in_order(_, _, _)
map_in_order(tree, trav, node_map) ==
    IF trav = <<>> THEN node_map
    ELSE map_in_order(tree, Tail(trav),
                      DictSet(node_map, tree[Head(trav)].path, tree[Head(trav)]))

Signatures(tree) == {node_signature(n) : n \in Nodes(tree)}

\* compare_trees when the old tree is visited in the order old_trav, the new
\* tree in the order new_trav, the paths are iterated in the order `order` and
\* the signatures of the old tree are processed in the order sig_order
compare_trees_in(old_tree, new_tree, old_trav, new_trav, order, sig_order) ==
    LET old_nodes == map_in_order(old_tree, old_trav, <<>>)
        new_nodes == map_in_order(new_tree, new_trav, <<>>)
        sigs == [i \in DOMAIN sig_order |-> [key |-> sig_order[i]]]
    IN  detect_moves(classify_paths(old_nodes, new_nodes, order), sigs,
                     signature_map(old_nodes, <<>>), signature_map(new_nodes, <<>>))

\* compare_files is about to read two small files
InitSmallFiles ==
    /\ oldDoc \in {Some(d) : d \in Docs}
    /\ newDoc \in {Some(d) : d \in {e \in Docs : Len(oldDoc[1]) + Len(e) <= MaxPermuted}}
    /\ oldTree = None
    /\ newTree = None
    /\ changes = <<>>
    /\ pc = "start"
    /\ NoCalls /\ NoFn

InitOrder == InitSmallFiles \/ InitTrees

\* compare_files on two small files, compare_trees on two trees built by hand
SpecOrder == InitOrder /\ [][Next]_vars

----------------------------------------------------------------------------
(* C12 *)

\* the pairs of distinct nodes of a tree that have one path
DuplicatePaths(tree) ==
    {pair \in (DOMAIN tree) \X (DOMAIN tree) :
        pair[1] < pair[2] /\ tree[pair[1]].path = tree[pair[2]].path}

OldNodeListed(node) == \E k \in DOMAIN changes : changes[k].old_node = Some(node)
NewNodeListed(node) == \E k \in DOMAIN changes : changes[k].new_node = Some(node)

\* C12: compare_trees does not return a list of changes in which one of two
\* distinct nodes with the same path is missing: when it returns (it has no
\* other outcome than returning a list), both nodes of every such pair of
\* the old tree and of the new tree are in the list.
C12_DuplicatePathNotMerged ==
    Done =>
        /\ \A pair \in DuplicatePaths(OldT) :
              OldNodeListed(OldT[pair[1]]) /\ OldNodeListed(OldT[pair[2]])
        /\ \A pair \in DuplicatePaths(NewT) :
              NewNodeListed(NewT[pair[1]]) /\ NewNodeListed(NewT[pair[2]])

----------------------------------------------------------------------------
(* C13 *)

\* both trees are a root without children
SingleRoots == Cardinality(DOMAIN OldT) = 1 /\ Cardinality(DOMAIN NewT) = 1

\* C13 as stated: for two trees that are a single root each, compare_trees
\* returns exactly one change, and it is about the root.
C13_EmptyTrees ==
    (Done /\ SingleRoots) =>
        /\ Len(changes) = 1
        /\ changes[1].old_node = Some(OldT[1]) \/ changes[1].new_node = Some(NewT[1])

\* C13 amended: for two trees that are a single root each, compare_trees
\* returns exactly one change, Modified or Unchanged, of the two roots when
\* they have the same path; when their paths differ it returns one Moved
\* change if their signatures are equal, and otherwise a Removed change of the
\* old root and an Added change of the new root.
C13_EmptyTreesByPath ==
    (Done /\ SingleRoots) =>
        /\ OldT[1].path = NewT[1].path =>
              /\ Len(changes) = 1
              /\ changes[1].change_type \in {"modified", "unchanged"}
              /\ changes[1].old_node = Some(OldT[1])
              /\ changes[1].new_node = Some(NewT[1])
        /\ (OldT[1].path # NewT[1].path
              /\ node_signature(OldT[1]) = node_signature(NewT[1])) =>
              changes = <<NodeChange("moved", Some(OldT[1]), Some(NewT[1]),
                                     Some(OldT[1].path), Some(NewT[1].path), None)>>
        /\ (OldT[1].path # NewT[1].path
              /\ node_signature(OldT[1]) # node_signature(NewT[1])) =>
              SeqToBag(changes) =
                  SeqToBag(<<NodeChange("removed", Some(OldT[1]), None,
                                        Some(OldT[1].path), None, None),
                             NodeChange("added", None, Some(NewT[1]),
                                        None, Some(NewT[1].path), None)>>)

\* two single roots with the same path and the same content have been compared
C13_Witness ==
    Done /\ SingleRoots /\ OldT[1].path = NewT[1].path /\ Of("unchanged") # {}

----------------------------------------------------------------------------
(* C14 *)

----------------------------------------------------------------------------
(* C15 *)

\* C15: each list returned by a call on a comparator that was called before
\* holds the multiset of changes that compare_trees returns for the same two
\* trees on a new comparator, and every list returned still holds what it
\* held when it was returned, whatever calls were made since.
C15_IndependentCalls ==
    pc = "calls" =>
        \A k \in DOMAIN returned :
            LET fresh == compare_trees(returned[k].old_root, returned[k].new_root,
                            RefOrder(all_paths(returned[k].old_root, returned[k].new_root)))
            IN  /\ SeqToBag(returned[k].value) = SeqToBag(fresh)
                /\ heap[returned[k].ref] = returned[k].value

\* two calls have been made, the first returned a non-empty list and the
\* second a different one, with a move
C15_Witness ==
    /\ pc = "calls"
    /\ Len(returned) = 2
    /\ returned[1].value # <<>>
    /\ returned[2].value # returned[1].value
    /\ \E k \in DOMAIN returned[2].value : returned[2].value[k].change_type = "moved"

----------------------------------------------------------------------------
(* C16 *)

Returned(fn) == pc = "fn" /\ ret # None /\ arg[1].fn = fn

Has(node, attr) == attr \in DOMAIN node.attributes
Pair(node, attr) == attr \o "=" \o node.attributes[attr]

\* the pairs of the attributes present among ID, name and sub_tree_name, in
\* that order, with ":" between two pairs
JoinedPairs(n) ==
    LET id == Has(n, "ID")
        nm == Has(n, "name")
        st == Has(n, "sub_tree_name")
    IN  CASE id /\ nm /\ st -> Pair(n, "ID") \o ":" \o Pair(n, "name")
                                    \o ":" \o Pair(n, "sub_tree_name")
          [] id /\ nm /\ ~st -> Pair(n, "ID") \o ":" \o Pair(n, "name")
          [] id /\ ~nm /\ st -> Pair(n, "ID") \o ":" \o Pair(n, "sub_tree_name")
          [] ~id /\ nm /\ st -> Pair(n, "name") \o ":" \o Pair(n, "sub_tree_name")
          [] id /\ ~nm /\ ~st -> Pair(n, "ID")
          [] ~id /\ nm /\ ~st -> Pair(n, "name")
          [] ~id /\ ~nm /\ st -> Pair(n, "sub_tree_name")
          [] ~id /\ ~nm /\ ~st -> ""

\* the same tag, kind, and ID, name and sub_tree_name (present with the same
\* value, or missing in both)
SameIdentity(m, n) ==
    /\ m.tag = n.tag
    /\ m.node_type = n.node_type
    /\ \A attr \in {"ID", "name", "sub_tree_name"} :
          /\ Has(m, attr) <=> Has(n, attr)
          /\ Has(m, attr) => m.attributes[attr] = n.attributes[attr]

\* C16: the signature of a node is its tag, "(", its kind, "):" and the
\* name=value pairs of those of ID, name, sub_tree_name it has, in that
\* order, joined by ":"; and every node with the same tag, kind and values of
\* these three attributes has this signature, whatever its other attributes.
C16_Signature ==
    Returned("_node_signature") =>
        LET n == arg[1].node
        IN  /\ ret[1] = n.tag \o "(" \o n.node_type \o "):" \o JoinedPairs(n)
            /\ \A m \in SigNodes : SameIdentity(m, n) => node_signature(m) = ret[1]

\* the signature of a node with an ID and a sub_tree_name, without name and
\* with another attribute has been computed
C16_Witness ==
    /\ Returned("_node_signature")
    /\ DOMAIN arg[1].node.attributes = {"ID", "sub_tree_name", "wait_time"}
    /\ arg[1].node.attributes["ID"] # arg[1].node.attributes["sub_tree_name"]

----------------------------------------------------------------------------
(* C17 *)

\* C17: _classify_node has a result for every tag, a NodeType that depends on
\* the tag only: control for a tag of CONTROL_NODES, decorator for a tag of
\* DECORATOR_NODES, subtree for SubTree, condition for Condition and action
\* for any other tag; the two tables are disjoint and hold neither SubTree
\* nor Condition, so that at most one of the first four cases applies.
C17_Classification ==
    /\ pc = "fn" =>
          /\ \A t \in Tags : classify_node(t) \in NodeType
          /\ CONTROL_NODES \cap DECORATOR_NODES = {}
          /\ {"SubTree", "Condition"} \cap (CONTROL_NODES \cup DECORATOR_NODES) = {}
    /\ Returned("_classify_node") =>
          LET t == arg[1].tag
          IN  /\ t \in CONTROL_NODES => ret[1] = "control"
              /\ t \in DECORATOR_NODES => ret[1] = "decorator"
              /\ t = "SubTree" => ret[1] = "subtree"
              /\ t = "Condition" => ret[1] = "condition"
              /\ t \notin CONTROL_NODES \cup DECORATOR_NODES \cup {"SubTree", "Condition"}
                    => ret[1] = "action"

\* the tag Condition has been classified
C17_Witness ==
    Returned("_classify_node") /\ arg[1].tag = "Condition" /\ ret[1] = "condition"

----------------------------------------------------------------------------
(* C18 *)

\* the fields of a NodeChange that hold its kind, its nodes, its paths and
\* its attribute changes
NodeChangeFields ==
    {"change_type", "old_node", "new_node", "old_path", "new_path", "attribute_changes"}

\* the change c has a field of its own that holds the pair of values
RecordedInField(c, pair) == \E f \in DOMAIN c \ NodeChangeFields : c[f] = pair

\* C18: a Modified change of two nodes that differ in tag has a field, other
\* than attribute_changes, that holds (old tag, new tag), and one of two nodes
\* that differ in kind has such a field that holds (old kind, new kind).
C18_TagKindRecorded ==
    Done =>
        \A i \in Of("modified") :
            LET o == changes[i].old_node[1]
                n == changes[i].new_node[1]
            IN  /\ o.tag # n.tag => RecordedInField(changes[i], <<o.tag, n.tag>>)
                /\ o.node_type # n.node_type =>
                      RecordedInField(changes[i], <<o.node_type, n.node_type>>)

----------------------------------------------------------------------------
(* C19 *)

\* the two trees are the same but for the value of the attribute attr, which
\* is not ID, of node i
DiffersOnlyIn(old_tree, new_tree, i, attr) ==
    /\ DOMAIN old_tree = DOMAIN new_tree
    /\ \A j \in DOMAIN old_tree \ {i} : old_tree[j] = new_tree[j]
    /\ attr # "ID"
    /\ attr \in DOMAIN old_tree[i].attributes
    /\ attr \in DOMAIN new_tree[i].attributes
    /\ old_tree[i].attributes[attr] # new_tree[i].attributes[attr]
    /\ new_tree[i] =
          [old_tree[i] EXCEPT !.attributes[attr] = new_tree[i].attributes[attr]]

AttrNames(tree) == UNION {DOMAIN tree[i].attributes : i \in DOMAIN tree}

\* C19: for two path-unique trees that are the same but for the value of
\* one attribute, not ID, of one node, compare_trees returns one Modified
\* change of that node with attribute_changes = {attribute: (old, new)}, one
\* Unchanged change of every other node, and nothing else.
C19_SingleAttribute ==
    ValidRun =>
        \A i \in DOMAIN OldT, attr \in AttrNames(OldT) :
            DiffersOnlyIn(OldT, NewT, i, attr) =>
                SeqToBag(changes) =
                    SeqToBag([j \in DOMAIN OldT |->
                        IF j = i
                        THEN NodeChange("modified", Some(OldT[j]), Some(NewT[j]),
                                        Some(OldT[j].path), Some(OldT[j].path),
                                        Some(attr :> <<OldT[j].attributes[attr],
                                                       NewT[j].attributes[attr]>>))
                        ELSE NodeChange("unchanged", Some(OldT[j]), Some(NewT[j]),
                                        Some(OldT[j].path), Some(OldT[j].path), None)])

\* two trees of two nodes that differ in one attribute of one node have been
\* compared, the other node having the signature the modified node gets
C19_Witness ==
    /\ ValidRun
    /\ Cardinality(DOMAIN OldT) = 2
    /\ \E i \in DOMAIN OldT, attr \in AttrNames(OldT) :
          /\ DiffersOnlyIn(OldT, NewT, i, attr)
          /\ \E j \in DOMAIN OldT \ {i} :
                node_signature(OldT[j]) = node_signature(NewT[i])

----------------------------------------------------------------------------
(* C20 *)

\* the values of the ID attributes of a document
DocIDs(doc) == {doc[i].attrib["ID"] : i \in {j \in DOMAIN doc : "ID" \in DOMAIN doc[j].attrib}}

\* no two elements of the document have the same ID
DistinctIDs(doc) ==
    \A i, j \in DOMAIN doc :
        (i # j /\ "ID" \in DOMAIN doc[i].attrib /\ "ID" \in DOMAIN doc[j].attrib)
            => doc[i].attrib["ID"] # doc[j].attrib["ID"]

\* the place in the new document of element i of the old one, the leaf being at pos
Shifted(i, pos) == IF i < pos THEN i ELSE i + 1

\* the changes are an Unchanged change of each node of the old tree and an
\* Added change of the leaf at pos of the new tree
UnchangedPlusLeaf(pos) ==
    /\ Len(changes) = Cardinality(DOMAIN OldT) + 1
    /\ \A i \in DOMAIN OldT :
          \E c \in Range(changes) :
              c = NodeChange("unchanged", Some(OldT[i]), Some(NewT[Shifted(i, pos)]),
                             Some(OldT[i].path), Some(OldT[i].path), None)
    /\ \E c \in Range(changes) :
          c = NodeChange("added", None, Some(NewT[pos]), None, Some(NewT[pos].path), None)

\* C20: when the new file is the old file (no ID twice in it) with one more
\* leaf, appended as the last child of an element and with an ID no element
\* of the old file has, compare_trees returns an Unchanged change of every
\* node of the old tree, one Added change of the leaf, and nothing else.
C20_LeafAppended ==
    (Done /\ oldDoc # None /\ DistinctIDs(oldDoc[1])) =>
        \A k \in DOMAIN oldDoc[1], label \in LeafLabels :
            (/\ newDoc[1] = AppendLeaf(oldDoc[1], k, label)
             /\ label.attrib["ID"] \notin DocIDs(oldDoc[1])) =>
                \E pos \in DOMAIN newDoc[1] :
                    /\ newDoc[1][pos] =
                          [tag |-> label.tag, attrib |-> label.attrib, parent |-> k]
                    /\ UnchangedPlusLeaf(pos)


----------------------------------------------------------------------------
(* C21 *)

\* C21: for the old tree root > middle > leaf[ID] and the new tree
\* root > leaf[ID] (the scenario: Sequence > Fallback > Action[ID=A] and
\* Sequence > Action[ID=A]), with the paths the parser gives, compare_trees
\* returns one Moved change of the leaf, from its path under the middle node
\* to its path under the root, one Removed change of the middle node, one
\* Unchanged change of the root, and nothing else.
C21_Reparenting ==
    Done =>
        /\ OldT[3].path = OldT[2].path \o "/" \o OldT[3].tag
                            \o "[@ID='" \o OldT[3].attributes["ID"] \o "']"
        /\ NewT[2].path = NewT[1].path \o "/" \o NewT[2].tag
                            \o "[@ID='" \o NewT[2].attributes["ID"] \o "']"
        /\ SeqToBag(changes) =
              SeqToBag(<<NodeChange("unchanged", Some(OldT[1]), Some(NewT[1]),
                                    Some(OldT[1].path), Some(NewT[1].path), None),
                         NodeChange("removed", Some(OldT[2]), None,
                                    Some(OldT[2].path), None, None),
                         NodeChange("moved", Some(OldT[3]), Some(NewT[2]),
                                    Some(OldT[3].path), Some(NewT[2].path), None)>>)

\* the scenario itself has been compared
C21_Witness ==
    /\ Done
    /\ oldDoc = Some(OldReparentDoc([root |-> "Sequence", middle |-> "Fallback",
                                     leaf |-> "Action", id |-> "A"]))
    /\ Of("moved") # {}


----------------------------------------------------------------------------
(* C22 *)

\* C22: for two path-unique trees, the two nodes of a Moved change are in no
\* other change of the list and the Moved change has no attribute_changes;
\* a Modified or Unchanged change is of the two nodes at one path, and which
\* of the two it is depends on their content only.
C22_MovedOnly ==
    ValidRun =>
        /\ \A i \in Of("moved") :
              /\ changes[i].attribute_changes = None
              /\ \A j \in DOMAIN changes \ {i} :
                    /\ changes[j].old_node # changes[i].old_node
                    /\ changes[j].new_node # changes[i].new_node
        /\ \A i \in Of("modified") \cup Of("unchanged") :
              /\ changes[i].old_path = changes[i].new_path
              /\ changes[i].old_node = Some(NodeAt(OldT, changes[i].old_path[1]))
              /\ changes[i].new_node = Some(NodeAt(NewT, changes[i].new_path[1]))
              /\ changes[i].change_type = "modified"
                    <=> ContentDiffers(changes[i].old_node[1], changes[i].new_node[1])


----------------------------------------------------------------------------
(* C23 *)

\* C23: the two nodes of every Unchanged change have the same tag, the same
\* kind and the same attributes: the same attribute names, each with the same
\* value (an attribute that is empty on one node and missing on the other is
\* a difference).
C23_UnchangedEqualContent ==
    Done =>
        \A i \in Of("unchanged") :
            LET o == changes[i].old_node[1]
                n == changes[i].new_node[1]
            IN  /\ o.tag = n.tag
                /\ o.node_type = n.node_type
                /\ DOMAIN o.attributes = DOMAIN n.attributes
                /\ \A a \in DOMAIN o.attributes : o.attributes[a] = n.attributes[a]


----------------------------------------------------------------------------
(* C24 *)

\* the pairs (old value, new value) of a Modified change, swapped
MirrorDeltas(attribute_changes) ==
    IF attribute_changes = None THEN None
    ELSE Some([a \in DOMAIN attribute_changes[1] |->
                  <<attribute_changes[1][a][2], attribute_changes[1][a][1]>>])

\* the change seen from the other side: Added and Removed exchanged, the old
\* and new node and the old and new path exchanged, the pairs swapped
Mirror(c) ==
    NodeChange(CASE c.change_type = "added" -> "removed"
                 [] c.change_type = "removed" -> "added"
                 [] OTHER -> c.change_type,
               c.new_node, c.old_node, c.new_path, c.old_path,
               MirrorDeltas(c.attribute_changes))

\* C24: for two path-unique trees, the changes of compare_trees(new, old) are,
\* as a multiset, the mirror images of the changes of compare_trees(old, new).
C24_MirrorSymmetry ==
    ValidRun =>
        LET back == compare_trees(NewT, OldT, RefOrder(all_paths(NewT, OldT)))
        IN  SeqToBag([i \in DOMAIN changes |-> Mirror(changes[i])]) = SeqToBag(back)

\* two different trees have been compared, with a Moved change and a
\* Modified change with attribute changes in the result
C24_Witness ==
    /\ ValidRun
    /\ \E i \in Of("modified") : changes[i].attribute_changes # Some(EmptyDict)
    /\ Of("moved") # {}


----------------------------------------------------------------------------
(* C25 *)

\* C25: in the list compare_trees returns, two different Moved changes have
\* different old nodes and different new nodes, and the two nodes of a Moved
\* change have the same signature and different paths, the old_path and the
\* new_path of the change.
C25_MovedPairing ==
    Done =>
        /\ \A i, j \in Of("moved") :
              i # j => /\ changes[i].old_node # changes[j].old_node
                       /\ changes[i].new_node # changes[j].new_node
        /\ \A i \in Of("moved") :
              LET o == changes[i].old_node[1]
                  n == changes[i].new_node[1]
              IN  /\ o \in Nodes(OldT) /\ n \in Nodes(NewT)
                  /\ node_signature(o) = node_signature(n)
                  /\ o.path # n.path
                  /\ changes[i].old_path = Some(o.path)
                  /\ changes[i].new_path = Some(n.path)

\* a result with two Moved changes, and one with a Moved change for trees
\* in which another signature has several instances
C25_Witness ==
    /\ Done
    /\ Of("moved") # {}
    /\ \/ Cardinality(Of("moved")) = 2
       \/ \E o \in Nodes(OldT) : SigCount(OldT, node_signature(o)) >= 2

----------------------------------------------------------------------------
(* C26 *)

\* C26: two nodes have the same signature only if they have the same tag, the
\* same kind, the same ones of ID, name and sub_tree_name and the same values
\* of them, also when a value holds a ":" or a "=".
C26_SignatureInjective ==
    Returned("_node_signature") =>
        \A m \in SepNodes :
            node_signature(m) = ret[1] => SameIdentity(m, arg[1].node)

----------------------------------------------------------------------------
(* C27 *)

\* C27: two nodes built by the parser, in one tree or in the two trees, that
\* have equal paths have equal tags and kinds, and every Modified change
\* returned by compare_files has a non-empty attribute_changes, also when ID
\* values hold "/", "[" or "'".
C27_PathDeterminesTag ==
    /\ pc \in {"parsed", "done"} =>
          \A m, n \in Nodes(OldT) \cup Nodes(NewT) :
              m.path = n.path => m.tag = n.tag /\ m.node_type = n.node_type
    /\ Done =>
          \A i \in Of("modified") :
              /\ changes[i].attribute_changes # None
              /\ DOMAIN changes[i].attribute_changes[1] # {}

----------------------------------------------------------------------------
(* C28 *)

\* the entries of a dictionary
DictItems(d) == {<<d[i].key, d[i].value>> : i \in DOMAIN d}

\* the BehaviorTree definitions of a file by tree id (the last one of an id
\* that the file defines twice)
FileTrees(file) ==
    DictItems(parse_file_loop([trees |-> <<>>, all_nodes |-> <<>>], file).trees)

\* C28: after any sequence of parse_file calls on one parser, the mapping a
\* call returned held, when it was returned, exactly the BehaviorTree
\* definitions of that call's file, and no later call has changed it.
C28_ParseFileReturns ==
    pc = "parser" =>
        \A k \in DOMAIN returned :
            /\ DictItems(returned[k].value) = FileTrees(returned[k].file)
            /\ heap[returned[k].ref] = returned[k].value

----------------------------------------------------------------------------
(* C29 *)

\* C29: when _generate_tree_with_git_changes returns the two trees, the tree
\* converted with 'old' is the tree of the selected id parsed from the
\* source-branch content and the tree converted with 'new' is the one parsed
\* from the target-branch content, also when both define a tree of that id.
C29_OldNewDistinct ==
    (pc = "analyzer" /\ ret # None /\ ret[1].returns = "dict"
        /\ arg[1].source_content # None) =>
        LET tree_id == ret[1].tree_id[1]
        IN  /\ \A e \in FileTrees(arg[1].source_content[1]) :
                  e[1] = tree_id => ret[1].old = Some(e[2])
            /\ \A e \in FileTrees(arg[1].target_content[1]) :
                  e[1] = tree_id => ret[1].new = Some(e[2])

----------------------------------------------------------------------------
(* C30 *)

\* the tree of a file the claim has chosen: with a tree_id the tree of that
\* id; without, MainTree when the file defines it and otherwise the first
\* tree of the file; None when the file has no such tree
ChosenTree(file, tree_id) ==
    LET trees == FileTrees(file)
        ids == {e[1] : e \in trees}
        first == Get(Head(file)[1].attrib, "ID", "MainTree")
        id == IF tree_id # None THEN tree_id
              ELSE IF "MainTree" \in ids THEN Some("MainTree")
              ELSE IF file # <<>> THEN Some(first)
              ELSE None
    IN  IF id # None /\ id[1] \in ids
        THEN Some((CHOOSE e \in trees : e[1] = id[1])[2])
        ELSE None

\* C30: compare_files either returns compare_trees of the two chosen trees or
\* raises ValueError, and it raises ValueError whenever a chosen tree is
\* missing from its file, also when a file defines no tree at all.
C30_TreeSelection ==
    (pc = "select" /\ ret # None) =>
        LET old == ChosenTree(arg[1].old_file, arg[1].tree_id)
            new == ChosenTree(arg[1].new_file, arg[1].tree_id)
        IN  IF old # None /\ new # None
            THEN /\ ret[1].raises = ""
                 /\ oldTree = old /\ newTree = new
                 /\ \E order \in Orders(all_paths(old[1], new[1])) :
                       changes = compare_trees(old[1], new[1], order)
            ELSE ret[1].raises = "ValueError"

====
